---- MODULE Spec2Model ----
(***************************************************************************)
(* PyIRCBot (src/pyircbot.py, src/config.py): the session loop run(), the  *)
(* line framing in it, handle_message and the command dispatch with its    *)
(* statistics.  Text is a TLA+ string; TLC evaluates Len, Head, Tail,      *)
(* SubSeq and \o on strings, so the Python string methods are defined on   *)
(* them character by character.                                            *)
(***************************************************************************)
EXTENDS Integers, Sequences, FiniteSets, TLC

(***************************************************************************)
(* Bounds of the model.                                                    *)
(***************************************************************************)
\* segments the server writes in one run
MaxSegs == 2
\* calendar months the clock runs through
MaxMonth == 2

(***************************************************************************)
(* Configuration (src/config.py) and the constructor's arguments.          *)
(***************************************************************************)
channel == "#c"
BOT_NICKNAME == "n"
username == "u"
realname == "r"
\* os.getenv('AUTO_RECONNECT', 'True').lower() == 'true'; pyircbot.py never
\* reads it
AUTO_RECONNECT == TRUE

\* int(os.getenv('MAX_DICE_COUNT', '10')), int(os.getenv('MAX_DICE_SIDES',
\* '100')); pyircbot.py never reads them either
MAX_DICE_COUNT == 10
MAX_DICE_SIDES == 100

\* the settings as config.py makes them from an empty environment
DefaultConfig ==
    [AUTO_RECONNECT |-> AUTO_RECONNECT, MAX_DICE_COUNT |-> MAX_DICE_COUNT,
     MAX_DICE_SIDES |-> MAX_DICE_SIDES]
\* random.randint(1, 999) of the nickname suffix
RandLo == 1
RandHi == 999
\* the suffixes the model draws
SuffixSamples == {RandLo, RandHi}

(***************************************************************************)
(* Python string methods.                                                  *)
(***************************************************************************)
\* s.startswith(p)
StartsWith(s, p) == Len(p) <= Len(s) /\ SubSeq(s, 1, Len(p)) = p

\* s.find(p) from position i, 1-based; 0 when p does not occur
RECURSIVE Find(_, _, _)
Find(s, p, i) ==
    IF i + Len(p) - 1 > Len(s) THEN 0
    ELSE IF SubSeq(s, i, i + Len(p) - 1) = p THEN i
    ELSE Find(s, p, i + 1)

\* p in s
Contains(s, p) == Find(s, p, 1) # 0

\* s.replace(old, new): every non-overlapping occurrence, left to right
RECURSIVE Replace(_, _, _)
Replace(s, old, new) ==
    LET i == Find(s, old, 1)
    IN  IF i = 0 THEN s
        ELSE SubSeq(s, 1, i - 1) \o new
             \o Replace(SubSeq(s, i + Len(old), Len(s)), old, new)

\* s.split(sep, n): at most n splits, n = -1 for no limit
RECURSIVE Split(_, _, _)
Split(s, sep, n) ==
    LET i == Find(s, sep, 1)
    IN  IF n = 0 \/ i = 0 THEN <<s>>
        ELSE <<SubSeq(s, 1, i - 1)>>
             \o Split(SubSeq(s, i + Len(sep), Len(s)), sep, n - 1)

Whitespace == {" ", "\t", "\r", "\n"}

\* bool(s.strip()): some character of s is not whitespace
RECURSIVE StripTruthy(_)
StripTruthy(s) ==
    IF s = "" THEN FALSE
    ELSE IF Head(s) \notin Whitespace THEN TRUE
    ELSE StripTruthy(Tail(s))

\* str(n) of a non-negative integer
Digit(d) == SubSeq("0123456789", d + 1, d + 1)

RECURSIVE IntToStr(_)
IntToStr(n) == IF n < 10 THEN Digit(n) ELSE IntToStr(n \div 10) \o Digit(n % 10)

(***************************************************************************)
(* bytes.decode('utf-8').  A received chunk is a string of bytes.  Two     *)
(* byte values stand for a two-byte UTF-8 sequence: Utf8Lead for its first *)
(* byte (0xC3) and Utf8Cont for its second (0xA9); together they decode to *)
(* the one character Utf8Char.  Every other byte is ASCII and decodes to   *)
(* itself.  A lead byte without its continuation, or a continuation byte   *)
(* without a lead byte, raises UnicodeDecodeError.                         *)
(***************************************************************************)
Utf8Lead == "^"
Utf8Cont == "~"
Utf8Char == "E"

\* the chunk decodes: the first continuation byte follows the first lead
\* byte, and so on behind that pair
RECURSIVE DecodeOk(_)
DecodeOk(b) ==
    LET l == Find(b, Utf8Lead, 1)
        c == Find(b, Utf8Cont, 1)
    IN  IF l = 0 THEN c = 0
        ELSE c = l + 1 /\ DecodeOk(SubSeq(b, l + 2, Len(b)))

\* the decoded text of a chunk that decodes
RECURSIVE Decode(_)
Decode(b) ==
    LET l == Find(b, Utf8Lead, 1)
    IN  IF l = 0 THEN b
        ELSE SubSeq(b, 1, l - 1) \o Utf8Char
             \o Decode(SubSeq(b, l + 2, Len(b)))

(***************************************************************************)
(* Python dict with insertion order: a sequence of <<key, value>> pairs.   *)
(***************************************************************************)
DictKeys(d) == {d[i][1] : i \in 1..Len(d)}

DictGet(d, k) == LET i == CHOOSE j \in 1..Len(d) : d[j][1] = k IN d[i][2]

\* if k not in d: d[k] = 0; d[k] += 1
DictInc(d, k) ==
    IF k \in DictKeys(d)
    THEN [i \in 1..Len(d) |-> IF d[i][1] = k THEN <<k, d[i][2] + 1>> ELSE d[i]]
    ELSE Append(d, <<k, 1>>)

(***************************************************************************)
(* State.                                                                  *)
(***************************************************************************)
VARIABLES
    pc,             \* position of run(): "start", "recv", "lines", "done"
    sock,           \* self.socket: "none", "unconnected", "open", "closed"
    running,        \* self.running
    nickname,       \* self.nickname
    current_month,  \* self.current_month
    stats,          \* self.stats
    commands,       \* self.commands, in insertion order
    buffer,         \* run()'s buffer
    pending,        \* the lines the for loop of run() has still to visit
    sent,           \* the messages handed to socket.send, in order
    wire,           \* segments written by the server and not yet received
    rx,             \* every byte received so far
    framed,         \* every line the framing has produced so far
    now,            \* the calendar month of datetime.now()
    budget,         \* segments the server may still write
    menu,           \* the segments the server chooses from
    exit,           \* why run() returned, "none" while it has not
    nHandled,       \* lines passed to handle_message so far
    lastLine,       \* the line passed to handle_message last
    lastOut,        \* the messages sent while that line was processed
    lastInvoked,    \* the handler calls made while that line was processed
    lastStats,      \* self.stats when that line was taken up
    welcomed,       \* a 001 reply has been passed to handle_message
    lastNick,       \* self.nickname when the last line was taken up
    lastNow,        \* the calendar month when the last line was taken up
    config,         \* the settings of config.py that pyircbot.py never reads
    flaky,          \* socket.send may raise
    quitRaised      \* the send of QUIT raised

vars == <<pc, sock, running, nickname, current_month, stats, commands, buffer,
          pending, sent, wire, rx, framed, now, budget, menu, exit, nHandled,
          lastLine, lastOut, lastInvoked, lastStats, welcomed, lastNick, lastNow,
          config, flaky, quitRaised>>

Months == 1..MaxMonth

\* strftime('%m-%Y') of the month with index m
MonthStr(m) == "M" \o IntToStr(m)

(***************************************************************************)
(* self.stats (src/pyircbot.py:62-74).                                     *)
(***************************************************************************)
EmptyBucket ==
    [messages_received |-> 0, commands_processed |-> 0, user_messages |-> <<>>]

InitStats(month) ==
    [messages_received |-> 0,
     commands_processed |-> 0,
     user_messages |-> <<>>,
     monthly_stats |-> [m \in {month} |-> EmptyBucket]]

\* d[k] = v on the month -> bucket mapping
PutBucket(ms, k, v) == [m \in (DOMAIN ms) \cup {k} |-> IF m = k THEN v ELSE ms[m]]

(***************************************************************************)
(* self.commands (src/pyircbot.py:48-59): prefix and handler, in order.    *)
(***************************************************************************)
Entry(c, f) == [cmd |-> c, func |-> f]

Registry ==
    << Entry(".help", "cmd_help"), Entry(".time", "cmd_time"),
       Entry(".ping", "cmd_ping"), Entry(".dice", "cmd_dice"),
       Entry(".8ball", "cmd_8ball"), Entry(".weather", "cmd_weather"),
       Entry(".joke", "cmd_joke"), Entry(".stats", "cmd_stats"),
       Entry(".google", "cmd_google"), Entry(".topusers", "cmd_topusers") >>

(***************************************************************************)
(* The bot as a value: the fields the line processing reads and writes,    *)
(* with out, invoked and raised collecting what one call did.              *)
(***************************************************************************)
Self ==
    [nickname |-> nickname, current_month |-> current_month, stats |-> stats,
     commands |-> commands, out |-> <<>>, invoked |-> <<>>, raised |-> FALSE]

\* check_month_change keeping only the bucket of the new month
check_month_change_forgetting(self, today) ==
    IF today # self.current_month
    THEN [self EXCEPT !.current_month = today,
                      !.stats.monthly_stats = [m \in {today} |-> EmptyBucket]]
    ELSE self

\* handle_message without its first statement, the month check
check_month_change_skipped(self, today) == self

\* check_month_change without lines 118-123: the month moves on and no bucket
\* is stored for it
check_month_change_unstored(self, today) ==
    IF today # self.current_month
    THEN [self EXCEPT !.current_month = today]
    ELSE self

\* check_month_change: the statistics part; the log files are left out
check_month_change(self, today) ==
    IF today # self.current_month
    THEN [self EXCEPT
            !.current_month = today,
            !.stats.monthly_stats =
                IF today \in DOMAIN @ THEN @ ELSE PutBucket(@, today, EmptyBucket)]
    ELSE self

\* get_monthly_stats returns the stored bucket, or a fresh dict that is not
\* stored: HasBucket tells which
HasBucket(self) == self.current_month \in DOMAIN self.stats.monthly_stats

get_monthly_stats(self) ==
    IF HasBucket(self) THEN self.stats.monthly_stats[self.current_month]
    ELSE EmptyBucket

\* monthly_stats[field] += 1 on what get_monthly_stats returned
MonthlyInc(self, field) ==
    IF HasBucket(self)
    THEN [self EXCEPT !.stats.monthly_stats[self.current_month][field] = @ + 1]
    ELSE self

\* handle_channel_message without lines 216-219: the sender is tallied
\* all-time and not in the month
MonthlyUserInc_Dropped(self, sender) == self

\* the per-user tally of what get_monthly_stats returned
MonthlyUserInc(self, sender) ==
    IF HasBucket(self)
    THEN [self EXCEPT !.stats.monthly_stats[self.current_month].user_messages =
                          DictInc(@, sender)]
    ELSE self

\* send_raw: the message is handed to socket.send; an error of the send is
\* logged and swallowed
send_raw(self, message) == [self EXCEPT !.out = Append(@, message)]

\* send_message without the colon in front of the text
send_message_bare(self, target, message) ==
    send_raw(self, "PRIVMSG " \o target \o " " \o message)

send_message(self, target, message) ==
    send_raw(self, "PRIVMSG " \o target \o " :" \o message)

join_channel(self, chan) == send_raw(self, "JOIN " \o chan)

(***************************************************************************)
(* Command handlers.  cmd_help, cmd_ping and cmd_stats are taken from      *)
(* their code (the uptime of cmd_stats is the text "<uptime>").  The reply *)
(* of a handler that reads the clock, draws at random or calls a web       *)
(* service is the text "<" \o its name \o ">".                             *)
(***************************************************************************)
\* max(d, key=d.get): the first key, in insertion order, of maximal count
Loudmouth(d) ==
    LET i == CHOOSE j \in 1..Len(d) :
                 /\ \A k \in 1..Len(d) : d[k][2] <= d[j][2]
                 /\ \A k \in 1..(j - 1) : d[k][2] < d[j][2]
    IN  d[i][1]

cmd_help(sender, message) ==
    "Available commands: .help, .time, .ping, .dice, .8ball, .weather, .joke, .stats, .google"

cmd_ping(sender, message) == "Pong! Hello " \o sender \o "!"

cmd_stats(self, sender, message) ==
    LET monthly == get_monthly_stats(self)
        loud == IF monthly.user_messages # <<>>
                THEN Loudmouth(monthly.user_messages) ELSE "None"
        count == IF monthly.user_messages # <<>>
                 THEN DictGet(monthly.user_messages, loud) ELSE 0
    IN  "PyIRCBot Stats - Uptime: <uptime>, Messages: "
        \o IntToStr(self.stats.messages_received)
        \o ", Commands: " \o IntToStr(self.stats.commands_processed)
        \o " | " \o MonthStr(self.current_month)
        \o ": Messages: " \o IntToStr(monthly.messages_received)
        \o ", Commands: " \o IntToStr(monthly.commands_processed)
        \o ", Loudmouth: " \o loud \o " (" \o IntToStr(count) \o " messages)"

\* d without its entry at position i
Without(d, i) == SubSeq(d, 1, i - 1) \o SubSeq(d, i + 1, Len(d))

\* a descending sort that puts entries of equal count in reverse order
RECURSIVE SortedByCount_Unstable(_)
SortedByCount_Unstable(d) ==
    IF d = <<>> THEN <<>>
    ELSE LET i == CHOOSE j \in 1..Len(d) :
                      /\ \A k \in 1..Len(d) : d[k][2] <= d[j][2]
                      /\ \A k \in (j + 1)..Len(d) : d[k][2] < d[j][2]
         IN  <<d[i]>> \o SortedByCount_Unstable(Without(d, i))

\* sorted(d.items(), key=lambda x: x[1], reverse=True): descending by
\* count; the sort is stable, entries of equal count keep the order of d
RECURSIVE SortedByCount(_)
SortedByCount(d) ==
    IF d = <<>> THEN <<>>
    ELSE LET i == CHOOSE j \in 1..Len(d) :
                      /\ \A k \in 1..Len(d) : d[k][2] <= d[j][2]
                      /\ \A k \in 1..(j - 1) : d[k][2] < d[j][2]
         IN  <<d[i]>> \o SortedByCount(Without(d, i))

\* the slice [:3]
TopN == 3

top_users(d) ==
    LET s == SortedByCount(d)
    IN  SubSeq(s, 1, IF Len(s) < TopN THEN Len(s) ELSE TopN)

\* the loop over top_users and the rstrip(', ')
RECURSIVE JoinTop(_)
JoinTop(top) ==
    IF top = <<>> THEN ""
    ELSE top[1][1] \o " (" \o IntToStr(top[1][2]) \o " messages)"
         \o (IF Len(top) > 1 THEN ", " ELSE "") \o JoinTop(Tail(top))

cmd_topusers(self, sender, message) ==
    LET monthly == get_monthly_stats(self)
    IN  IF monthly.user_messages # <<>>
        THEN "Top 3 users for " \o MonthStr(self.current_month) \o ": "
             \o JoinTop(top_users(monthly.user_messages))
        ELSE "No user data available for "
             \o MonthStr(self.current_month) \o "."

\* the longest prefix of s made of digits: what \d+ takes, when not empty
RECURSIVE DigitRun(_)
DigitRun(s) ==
    IF s # "" /\ Contains("0123456789", SubSeq(s, 1, 1))
    THEN SubSeq(s, 1, 1) \o DigitRun(Tail(s))
    ELSE ""

\* int(s) of a string of digits
RECURSIVE StrToInt(_)
StrToInt(s) ==
    IF s = "" THEN 0
    ELSE 10 * StrToInt(SubSeq(s, 1, Len(s) - 1))
         + (Find("0123456789", SubSeq(s, Len(s), Len(s)), 1) - 1)

\* re.search(r'\.dice (\d+)d(\d+)', message) from position i on: the two
\* groups of the leftmost match, <<>> when there is none
RECURSIVE dice_match(_, _)
dice_match(message, i) ==
    LET at == Find(message, ".dice ", i)
        rest == SubSeq(message, at + 6, Len(message))
        first == DigitRun(rest)
        behind == SubSeq(rest, Len(first) + 1, Len(rest))
        second == DigitRun(Tail(behind))
    IN  IF at = 0 THEN <<>>
        ELSE IF first # "" /\ StartsWith(behind, "d") /\ second # ""
        THEN <<first, second>>
        ELSE dice_match(message, at + 1)

\* what random.randint(1, sides) returns: its least or its greatest value
DieSamples == {"low", "high"}

Draw(sides, die) == IF die = "low" THEN 1 ELSE sides

\* str(rolls) of a list of integers
RECURSIVE ListRepr(_)
ListRepr(rolls) ==
    IF rolls = <<>> THEN ""
    ELSE IntToStr(rolls[1]) \o (IF Len(rolls) > 1 THEN ", " ELSE "")
         \o ListRepr(Tail(rolls))

RECURSIVE Sum(_)
Sum(rolls) == IF rolls = <<>> THEN 0 ELSE rolls[1] + Sum(Tail(rolls))

\* the reply of a roll that went through (lines 286-287), and its values
DiceReply(sender, num_dice, sides, rolls) ==
    [reply |-> sender \o " rolled " \o IntToStr(num_dice)
               \o "d" \o IntToStr(sides) \o ": ["
               \o ListRepr(rolls) \o "] (Total: "
               \o IntToStr(Sum(rolls)) \o ")",
     drawn |-> rolls]

\* lines 283-287: the size test, then num_dice draws; random.randint(1, 0)
\* raises, which the bare except of cmd_dice turns into a reply
RollDice(sender, num_dice, sides, die) ==
    IF num_dice > 10 \/ sides > 100
    THEN [reply |-> "Dice too large! Max 10 dice, 100 sides.", drawn |-> <<>>]
    ELSE IF num_dice > 0 /\ sides < 1
    THEN [reply |-> "Invalid dice format! Use .dice or .dice XdY",
          drawn |-> <<>>]
    ELSE DiceReply(sender, num_dice, sides,
                   [k \in 1..num_dice |-> Draw(sides, die)])

\* lines 280-289: 'if dice_match:' with the two groups, else the usage text
DiceMatched(sender, groups, die) ==
    IF groups # <<>>
    THEN RollDice(sender, StrToInt(groups[1]), StrToInt(groups[2]), die)
    ELSE [reply |-> "Usage: .dice or .dice XdY (e.g., .dice 2d20)",
          drawn |-> <<>>]

\* cmd_dice: the reply, and the values random.randint returned
cmd_dice(sender, message, die) ==
    IF message = ".dice"
    THEN [reply |-> sender \o " rolled: " \o IntToStr(Draw(6, die)),
          drawn |-> <<Draw(6, die)>>]
    ELSE DiceMatched(sender, dice_match(message, 1), die)

\* func(sender, message) when it returns
HandlerReply(self, func, sender, message, res) ==
    CASE func = "cmd_help" -> cmd_help(sender, message)
      [] func = "cmd_ping" -> cmd_ping(sender, message)
      [] func = "cmd_stats" -> cmd_stats(self, sender, message)
      [] func = "cmd_topusers" -> cmd_topusers(self, sender, message)
      [] func = "cmd_dice" -> cmd_dice(sender, message, res.die).reply
      [] OTHER -> "<" \o func \o ">"

\* The handlers that call a web service.  The call func(sender, message) in
\* the dispatch loops is not inside a try: an error that leaves such a
\* handler leaves handle_message as well.
ExternalHandlers == {"cmd_weather", "cmd_google"}

\* how a call of a handler goes: whether it returns or raises, and what its
\* random draws give
HandlerOutcomes ==
    {[kind |-> "return", die |-> d] : d \in DieSamples}
        \cup {[kind |-> "raise", die |-> "low"]}

\* the values random.randint returns to the handler during the call
HandlerDrawn(func, sender, message, res) ==
    IF func = "cmd_dice" THEN cmd_dice(sender, message, res.die).drawn ELSE <<>>

Raises(func, res) == res.kind = "raise" /\ func \in ExternalHandlers

(***************************************************************************)
(* Dispatch: for cmd, func in self.commands.items(): if                    *)
(* message.startswith(cmd): ...; break                                     *)
(***************************************************************************)
\* Scan without the break: the last matching entry wins
RECURSIVE ScanNoBreak(_, _, _)
ScanNoBreak(cmds, message, i) ==
    IF i > Len(cmds) THEN 0
    ELSE LET later == ScanNoBreak(cmds, message, i + 1)
         IN  IF later # 0 THEN later
             ELSE IF StartsWith(message, cmds[i].cmd) THEN i
             ELSE 0

\* the index of the entry the loop stops at, from entry i on; 0 for none
RECURSIVE Scan(_, _, _)
Scan(cmds, message, i) ==
    IF i > Len(cmds) THEN 0
    ELSE IF StartsWith(message, cmds[i].cmd) THEN i
    ELSE Scan(cmds, message, i + 1)

\* the body of the if without line 226 (251): the command is counted all-time
\* and not in the month
RunCommand_AllTimeOnly(self, i, sender, message, target, res) ==
    LET func == self.commands[i].func
        s1 == [self EXCEPT !.stats.commands_processed = @ + 1]
        s3 == [s1 EXCEPT !.invoked =
                   Append(@, [func |-> func, sender |-> sender,
                              message |-> message, seen |-> s1.stats,
                              drawn |-> HandlerDrawn(func, sender, message,
                                                     res)])]
    IN  IF Raises(func, res) THEN [s3 EXCEPT !.raised = TRUE]
        ELSE LET response == HandlerReply(s3, func, sender, message, res)
             IN  IF response # "" THEN send_message(s3, target, response)
                 ELSE s3

\* the body of the if in the dispatch loop, replying to target
RunCommand(self, i, sender, message, target, res) ==
    LET func == self.commands[i].func
        s1 == [self EXCEPT !.stats.commands_processed = @ + 1]
        s2 == MonthlyInc(s1, "commands_processed")
        s3 == [s2 EXCEPT !.invoked =
                   Append(@, [func |-> func, sender |-> sender,
                              message |-> message, seen |-> s2.stats,
                              drawn |-> HandlerDrawn(func, sender, message,
                                                     res)])]
    IN  IF Raises(func, res) THEN [s3 EXCEPT !.raised = TRUE]
        ELSE LET response == HandlerReply(s3, func, sender, message, res)
             IN  IF response # "" THEN send_message(s3, target, response)
                 ELSE s3

\* handle_channel_message with the tallies moved behind the dispatch loop
handle_channel_message_late(self, sender, message, res) ==
    LET i == Scan(self.commands, message, 1)
        s1 == IF i = 0 THEN self
              ELSE RunCommand(self, i, sender, message, channel, res)
        s2 == [s1 EXCEPT !.stats.user_messages = DictInc(@, sender)]
    IN  MonthlyUserInc(s2, sender)

handle_channel_message(self, sender, message, res) ==
    LET s1 == [self EXCEPT !.stats.user_messages = DictInc(@, sender)]
        s2 == MonthlyUserInc(s1, sender)
        i == Scan(s2.commands, message, 1)
    IN  IF i = 0 THEN s2
        ELSE RunCommand(s2, i, sender, message, channel, res)

\* handle_private_message tallying the sender as the channel side does
handle_private_message_tallying(self, sender, message, res) ==
    LET s1 == [self EXCEPT !.stats.user_messages = DictInc(@, sender)]
        s2 == MonthlyUserInc(s1, sender)
        i == Scan(s2.commands, message, 1)
    IN  IF i = 0 THEN s2
        ELSE RunCommand(s2, i, sender, message, sender, res)

\* handle_private_message replying to the channel
handle_private_message_aloud(self, sender, message, res) ==
    LET i == Scan(self.commands, message, 1)
    IN  IF i = 0 THEN self
        ELSE RunCommand(self, i, sender, message, channel, res)

handle_private_message(self, sender, message, res) ==
    LET i == Scan(self.commands, message, 1)
    IN  IF i = 0 THEN self
        ELSE RunCommand(self, i, sender, message, sender, res)

\* CountMessage without the monthly increment
CountMessage_AllTimeOnly(self) ==
    [self EXCEPT !.stats.messages_received = @ + 1]

\* the accounting of lines 179-183
CountMessage(self) ==
    MonthlyInc([self EXCEPT !.stats.messages_received = @ + 1],
               "messages_received")

\* the test with every command but PING taken for a PRIVMSG
IsPrivmsgCommand_Else(command) == TRUE

\* elif command == 'PRIVMSG'
IsPrivmsgCommand(command) == command = "PRIVMSG"

\* the body of 'if len(parts) >= 3' (lines 175-199)
handle_parts(s0, parts, res) ==
    LET sender == Split(Tail(parts[1]), "!", -1)[1]
        command == parts[2]
        message == IF StartsWith(parts[3], ":")
                   THEN Tail(parts[3]) ELSE parts[3]
        s1 == CountMessage(s0)
    IN  IF command = "PING"
        THEN send_raw(s1, "PONG :" \o message)
        ELSE IF IsPrivmsgCommand(command)
        THEN LET hasText == Contains(parts[3], " :")
                 target == IF hasText
                           THEN Split(parts[3], " :", -1)[1]
                           ELSE parts[3]
                 actual_message ==
                     IF hasText
                     THEN Split(parts[3], " :", 1)[2]
                     ELSE ""
             IN  IF target = channel
                 THEN handle_channel_message(
                          s1, sender, actual_message, res)
                 ELSE handle_private_message(
                          s1, sender, actual_message, res)
        ELSE s1

\* handle_message counting every line with an origin, also one with fewer
\* than three parts
handle_message_counting(self, line, today, res) ==
    LET s0 == check_month_change(self, today)
    IN  IF StartsWith(line, ":")
        THEN LET parts == Split(line, " ", 2)
             IN  IF Len(parts) >= 3
                 THEN handle_parts(s0, parts, res)
                 ELSE CountMessage(s0)
        ELSE IF StartsWith(line, "PING")
             THEN send_raw(s0, Replace(line, "PING", "PONG"))
             ELSE s0

handle_message(self, line, today, res) ==
    LET s0 == check_month_change(self, today)
    IN  IF StartsWith(line, ":")
        THEN LET parts == Split(line, " ", 2)
             IN  IF Len(parts) >= 3
                 THEN handle_parts(s0, parts, res)
                 ELSE s0
        ELSE IF StartsWith(line, "PING")
             THEN send_raw(s0, Replace(line, "PING", "PONG"))
             ELSE s0

\* the server responses of run(), lines 779-787, after handle_message
ServerResponses(self, line, suffix) ==
    IF Contains(line, "001") THEN join_channel(self, channel)
    ELSE IF Contains(line, "433")
    THEN LET s1 == [self EXCEPT !.nickname = @ \o IntToStr(suffix)]
         IN  send_raw(s1, "NICK " \o s1.nickname)
    ELSE IF Contains(line, "PING")
    THEN send_raw(self, Replace(line, "PING", "PONG"))
    ELSE self

\* the body of the for loop of run() for a line with line.strip() true
LoopBody(self, line, today, res, suffix) ==
    LET s1 == handle_message(self, line, today, res)
    IN  IF s1.raised THEN s1 ELSE ServerResponses(s1, line, suffix)

(***************************************************************************)
(* The kinds of inbound line.                                              *)
(***************************************************************************)
\* an origin, a command token and at least one parameter
HasOrigin(line) == StartsWith(line, ":") /\ Len(Split(line, " ", 2)) >= 3

CommandOf(line) == Split(line, " ", 2)[2]

ParamsOf(line) == Split(line, " ", 2)[3]

\* the numeric reply 001
IsWelcome(line) == HasOrigin(line) /\ CommandOf(line) = "001"

IsPrivmsg(line) == HasOrigin(line) /\ CommandOf(line) = "PRIVMSG"

\* the first parameter of a PRIVMSG and its trailing parameter
TargetOf(line) == Split(ParamsOf(line), " :", 1)[1]

TextOf(line) ==
    IF Contains(ParamsOf(line), " :") THEN Split(ParamsOf(line), " :", 1)[2]
    ELSE ""

SenderOf(line) == Split(Tail(Split(line, " ", 2)[1]), "!", 1)[1]

IsChannelMsg(line) == IsPrivmsg(line) /\ TargetOf(line) = channel

IsDirectMsg(line) == IsPrivmsg(line) /\ TargetOf(line) # channel

(***************************************************************************)
(* What the server may write: one segment is what one recv returns.        *)
(***************************************************************************)
CRLF == "\r\n"

Menu ==
    { "PING :t" \o CRLF,
      ":s PING :t" \o CRLF,
      "PING :001" \o CRLF,
      ":s 001 n :hi" \o CRLF,
      ":s 001 n :PING" \o CRLF,
      ":a!u@h PRIVMSG #c :.ping" \o CRLF,
      ":z!u@h PRIVMSG #c :.stats" \o CRLF,
      ":z!u@h PRIVMSG #c :.weather x" \o CRLF,
      ":a!u@h PRIVMSG n :.ping" \o CRLF,
      ":z!u@h PRIVMSG n :hi" \o CRLF,
      ":a!u@h PRIVMSG #c :hey" \o CRLF \o "PING :t" \o CRLF }

QuitMessage == "QUIT :PyIRCBot signing off!"

(***************************************************************************)
(* Init: the state after PyIRCBot() (src/pyircbot.py:23-74).               *)
(***************************************************************************)
InitIn(registry, segments, settings, sendMayRaise) ==
    /\ pc = "start"
    /\ sock = "none"
    /\ running = FALSE
    /\ nickname = BOT_NICKNAME
    /\ now = 1
    /\ current_month = 1
    /\ stats = InitStats(1)
    /\ commands = registry
    /\ buffer = ""
    /\ pending = <<>>
    /\ sent = <<>>
    /\ wire = <<>>
    /\ rx = ""
    /\ framed = <<>>
    /\ budget = MaxSegs
    /\ menu = segments
    /\ exit = "none"
    /\ nHandled = 0
    /\ lastLine = ""
    /\ lastOut = <<>>
    /\ lastInvoked = <<>>
    /\ lastStats = InitStats(1)
    /\ welcomed = FALSE
    /\ lastNick = BOT_NICKNAME
    /\ lastNow = 1
    /\ config = settings
    /\ flaky = sendMayRaise
    /\ quitRaised = FALSE

\* the default settings, and a socket whose send does not raise
InitWith(registry, segments) ==
    InitIn(registry, segments, DefaultConfig, FALSE)

Init == InitWith(Registry, Menu)

history == <<nHandled, lastLine, lastOut, lastInvoked, lastStats, welcomed,
             lastNick, lastNow>>
botFields == <<nickname, current_month, stats, commands>>
env == <<now, budget, menu, config, flaky>>

(***************************************************************************)
(* cleanup() (src/pyircbot.py:796-802), reached from the finally of run(), *)
(* after the messages out have been sent.                                  *)
(***************************************************************************)
\* whether a socket.send raises: send_raw catches the error and logs it
SendOutcomes == IF flaky THEN BOOLEAN ELSE {FALSE}

\* cleanup with a send_raw that lets the error of the send through: close()
\* is not reached
cleanup_unguarded(out, reason) ==
    /\ running' = FALSE
    /\ IF sock # "none"
       THEN /\ sent' = sent \o out \o <<QuitMessage>>
            /\ quitRaised' \in SendOutcomes
            /\ sock' = IF quitRaised' THEN sock ELSE "closed"
       ELSE /\ sent' = sent \o out
            /\ quitRaised' = quitRaised
            /\ sock' = sock
    /\ pc' = "done"
    /\ exit' = reason
    /\ buffer' = ""
    /\ pending' = <<>>

cleanup(out, reason) ==
    /\ running' = FALSE
    /\ IF sock # "none"
       THEN /\ sent' = sent \o out \o <<QuitMessage>>
            /\ quitRaised' \in SendOutcomes
            /\ sock' = "closed"
       ELSE /\ sent' = sent \o out
            /\ quitRaised' = quitRaised
            /\ sock' = sock
    /\ pc' = "done"
    /\ exit' = reason
    /\ buffer' = ""
    /\ pending' = <<>>

\* connect() sending USER in front of NICK
Connect_UserFirst ==
    /\ pc = "start"
    /\ \E outcome \in {"ok", "refused", "nosocket"} :
          IF outcome = "ok"
          THEN /\ sock' = "open"
               /\ sent' = sent \o <<"USER " \o username \o " 0 * :" \o realname,
                                    "NICK " \o nickname>>
               /\ running' = TRUE
               /\ pc' = "recv"
               /\ exit' = exit
          ELSE /\ sock' = IF outcome = "refused" THEN "unconnected" ELSE "none"
               /\ sent' = sent
               /\ running' = running
               /\ pc' = "done"
               /\ exit' = "connect_failed"
    /\ buffer' = ""
    /\ UNCHANGED <<botFields, pending, wire, rx, framed, env, history,
                   quitRaised>>

(***************************************************************************)
(* run(): connect() (src/pyircbot.py:133-147, 759-763).                    *)
(***************************************************************************)
Connect ==
    /\ pc = "start"
    /\ \E outcome \in {"ok", "refused", "nosocket"} :
          IF outcome = "ok"
          THEN /\ sock' = "open"
               /\ sent' = sent \o <<"NICK " \o nickname,
                                    "USER " \o username \o " 0 * :" \o realname>>
               /\ running' = TRUE
               /\ pc' = "recv"
               /\ exit' = exit
          ELSE /\ sock' = IF outcome = "refused" THEN "unconnected" ELSE "none"
               /\ sent' = sent
               /\ running' = running
               /\ pc' = "done"
               /\ exit' = "connect_failed"
    /\ buffer' = ""
    /\ UNCHANGED <<botFields, pending, wire, rx, framed, env, history,
                   quitRaised>>

\* the server writes a segment
ServerSend ==
    /\ sock = "open"
    /\ budget > 0
    /\ \E seg \in menu : wire' = Append(wire, seg)
    /\ budget' = budget - 1
    /\ UNCHANGED <<pc, sock, running, botFields, buffer, pending, sent, rx,
                   framed, now, menu, exit, history, config, flaky,
                   quitRaised>>

\* the calendar month changes
Tick ==
    /\ pc # "done"
    /\ now < MaxMonth
    /\ now' = now + 1
    /\ UNCHANGED <<pc, sock, running, botFields, buffer, pending, sent, wire,
                   rx, framed, budget, menu, exit, history, config, flaky,
                   quitRaised>>

(***************************************************************************)
(* run(): one recv that returns data (src/pyircbot.py:767-773).            *)
(***************************************************************************)
Recv ==
    /\ pc = "recv"
    /\ wire # <<>>
    /\ wire' = Tail(wire)
    /\ rx' = rx \o Head(wire)
    /\ IF DecodeOk(Head(wire))
       THEN LET lines == Split(buffer \o Decode(Head(wire)), CRLF, -1)
                complete == SubSeq(lines, 1, Len(lines) - 1)
            IN  /\ buffer' = lines[Len(lines)]
                /\ pending' = complete
                /\ framed' = framed \o complete
                /\ pc' = IF complete = <<>> THEN "recv" ELSE "lines"
                /\ UNCHANGED <<sock, running, sent, exit, quitRaised>>
       ELSE /\ cleanup(<<>>, "decode_error")
            /\ framed' = framed
    /\ UNCHANGED <<botFields, env, history>>

\* recv returns no data: the peer closed the connection
RecvEof ==
    /\ pc = "recv"
    /\ wire = <<>>
    /\ cleanup(<<>>, "eof")
    /\ UNCHANGED <<botFields, wire, rx, framed, env, history>>

\* recv raises: a read error
RecvError ==
    /\ pc = "recv"
    /\ cleanup(<<>>, "recv_error")
    /\ UNCHANGED <<botFields, wire, rx, framed, env, history>>

\* KeyboardInterrupt in the loop
Interrupt ==
    /\ pc \in {"recv", "lines"}
    /\ cleanup(<<>>, "interrupt")
    /\ UNCHANGED <<botFields, wire, rx, framed, env, history>>

(***************************************************************************)
(* run(): one iteration of the for loop (src/pyircbot.py:775-787).         *)
(***************************************************************************)
HandleLine ==
    /\ pc = "lines"
    /\ LET line == Head(pending)
           rest == Tail(pending)
       IN  IF ~StripTruthy(line)
           THEN /\ pending' = rest
                /\ pc' = IF rest = <<>> THEN "recv" ELSE "lines"
                /\ UNCHANGED <<sock, running, nickname, current_month, stats,
                               buffer, sent, exit, history, quitRaised>>
           ELSE \E res \in HandlerOutcomes, suffix \in SuffixSamples :
                  LET s == LoopBody(Self, line, now, res, suffix)
                  IN  /\ nickname' = s.nickname
                      /\ current_month' = s.current_month
                      /\ stats' = s.stats
                      /\ nHandled' = nHandled + 1
                      /\ lastLine' = line
                      /\ lastOut' = s.out
                      /\ lastInvoked' = s.invoked
                      /\ lastStats' = stats
                      /\ welcomed' = (welcomed \/ IsWelcome(line))
                      /\ lastNick' = nickname
                      /\ lastNow' = now
                      /\ IF s.raised
                         THEN cleanup(s.out, "handler_error")
                         ELSE /\ sent' = sent \o s.out
                              /\ pending' = rest
                              /\ pc' = IF rest = <<>> THEN "recv" ELSE "lines"
                              /\ UNCHANGED <<sock, running, buffer, exit,
                                              quitRaised>>
    /\ UNCHANGED <<commands, wire, rx, framed, env>>

Next ==
    \/ Connect
    \/ ServerSend
    \/ Tick
    \/ Recv
    \/ RecvEof
    \/ RecvError
    \/ Interrupt
    \/ HandleLine

Spec == Init /\ [][Next]_vars

(***************************************************************************)
(* Properties.                                                             *)
(***************************************************************************)
\* the lines of out that contain the word w
Having(out, w) == {i \in 1..Len(out) : Contains(out[i], w)}

\* the trailing parameter of a line: what follows its first " :"
TrailingOf(line) ==
    IF Contains(line, " :") THEN Split(line, " :", 1)[2] ELSE ""

\* C1 (keepalive fidelity): processing an inbound line that contains PING
\* sends exactly one reply with PONG in place of PING and with the same
\* trailing token, while that line is processed.
C1_KeepaliveFidelity ==
    (nHandled > 0 /\ Contains(lastLine, "PING"))
        => /\ Cardinality(Having(lastOut, "PONG")) = 1
           /\ \A i \in Having(lastOut, "PONG") :
                  /\ ~Contains(lastOut[i], "PING")
                  /\ TrailingOf(lastOut[i]) = TrailingOf(lastLine)

\* C2 (reconnect after transport loss): with auto-reconnect enabled, an
\* end-of-stream or a read error on a connected session does not end run().
C2_ReconnectAfterLoss ==
    (AUTO_RECONNECT /\ exit \in {"eof", "recv_error"}) => pc # "done"

\* C3 (connect failure is not terminal): with auto-reconnect enabled, a
\* failed connect() leads to another attempt, not to run() returning.
C3_ConnectFailureNotTerminal ==
    (AUTO_RECONNECT /\ exit = "connect_failed") => pc # "done"

BucketOf(st, m) ==
    IF m \in DOMAIN st.monthly_stats THEN st.monthly_stats[m] ELSE EmptyBucket

\* the tally of user in the dict d, 0 when absent
Tally(d, user) == IF user \in DictKeys(d) THEN DictGet(d, user) ELSE 0

\* 1 when a registry entry's prefix starts the text of the line, else 0
Matched(line) ==
    IF \E i \in 1..Len(commands) : StartsWith(TextOf(line), commands[i].cmd)
    THEN 1 ELSE 0

\* the command counters rose by Matched(lastLine), all-time and this month
CommandsCounted ==
    /\ stats.commands_processed
           = lastStats.commands_processed + Matched(lastLine)
    /\ BucketOf(stats, current_month).commands_processed
           = BucketOf(lastStats, current_month).commands_processed
             + Matched(lastLine)

\* no per-sender tally changed, all-time or in any bucket
TalliesUnchanged ==
    /\ stats.user_messages = lastStats.user_messages
    /\ \A m \in DOMAIN stats.monthly_stats :
           BucketOf(stats, m).user_messages
               = BucketOf(lastStats, m).user_messages

\* C5 as stated (asymmetric accounting, direct side): a direct message
\* leaves messages_received and every per-sender tally unchanged, all-time
\* and in the current month; only commands_processed may change, on a match.
C5_DirectLeavesMessagesReceived ==
    (nHandled > 0 /\ IsDirectMsg(lastLine))
        => /\ stats.messages_received = lastStats.messages_received
           /\ BucketOf(stats, current_month).messages_received
                  = BucketOf(lastStats, current_month).messages_received
           /\ TalliesUnchanged
           /\ CommandsCounted

\* C5 as amended: a direct message raises messages_received by exactly 1,
\* all-time and in the current month, leaves every per-sender tally
\* unchanged, and raises commands_processed by 1 exactly when a command
\* matches.
C5_DirectAccounting ==
    (nHandled > 0 /\ IsDirectMsg(lastLine))
        => /\ stats.messages_received = lastStats.messages_received + 1
           /\ BucketOf(stats, current_month).messages_received
                  = BucketOf(lastStats, current_month).messages_received + 1
           /\ TalliesUnchanged
           /\ CommandsCounted

\* a direct message with a command has been processed in the second month
C5_Witness ==
    /\ nHandled > 0
    /\ IsDirectMsg(lastLine)
    /\ Matched(lastLine) = 1
    /\ current_month = 2
    /\ exit = "none"

\* C6 (exactly-once channel accounting): a channel message raises
\* messages_received and its sender's tally by exactly 1, all-time and in
\* the current month, before a handler is called and whether or not a
\* command matches.
C6_ChannelAccounting ==
    (nHandled > 0 /\ IsChannelMsg(lastLine))
        => LET who == SenderOf(lastLine)
               msgs == lastStats.messages_received + 1
               mine == Tally(lastStats.user_messages, who) + 1
               monthMsgs ==
                   BucketOf(lastStats, current_month).messages_received + 1
               monthMine ==
                   Tally(BucketOf(lastStats, current_month).user_messages, who)
                   + 1
               Counted(st) ==
                   /\ st.messages_received = msgs
                   /\ Tally(st.user_messages, who) = mine
                   /\ BucketOf(st, current_month).messages_received = monthMsgs
                   /\ Tally(BucketOf(st, current_month).user_messages, who)
                          = monthMine
           IN  /\ Counted(stats)
               /\ \A i \in 1..Len(lastInvoked) : Counted(lastInvoked[i].seen)

\* a channel message with a command has been processed in the second month,
\* by a sender who had written in the first
C6_Witness ==
    /\ nHandled > 1
    /\ IsChannelMsg(lastLine)
    /\ lastInvoked # <<>>
    /\ current_month = 2
    /\ Tally(stats.user_messages, SenderOf(lastLine)) = 2

\* C7: messages_received >= commands_processed, all-time and in every bucket
C7_MessagesAtLeastCommands ==
    /\ stats.messages_received >= stats.commands_processed
    /\ \A m \in DOMAIN stats.monthly_stats :
           stats.monthly_stats[m].messages_received
               >= stats.monthly_stats[m].commands_processed

\* two direct messages with a command, in different months, and no other
\* line counted
C7_Witness ==
    /\ stats.commands_processed = 2
    /\ stats.messages_received = 2
    /\ stats.user_messages = <<>>
    /\ DOMAIN stats.monthly_stats = {1, 2}
    /\ stats.monthly_stats[2].commands_processed = 1

(***************************************************************************)
(* The dispatch loop on registries with overlapping prefixes: the same     *)
(* program, constructed with a registry of TestRegistries.                 *)
(***************************************************************************)
TestRegistries ==
    { << Entry(".dice", "cmd_dice"), Entry(".dice2", "cmd_dice2") >>,
      << Entry(".dice2", "cmd_dice2"), Entry(".dice", "cmd_dice") >>,
      << Entry(".d", "cmd_d"), Entry(".dice2", "cmd_dice2"),
         Entry(".dice", "cmd_dice") >> }

DispatchMenu ==
    { ":a!u@h PRIVMSG #c :.dice2 roll" \o CRLF,
      ":a!u@h PRIVMSG #c :.dice" \o CRLF,
      ":a!u@h PRIVMSG #c :dice" \o CRLF,
      ":a!u@h PRIVMSG n :.dice2" \o CRLF,
      ":a!u@h PRIVMSG n :.d6" \o CRLF }

InitDispatch == \E registry \in TestRegistries : InitWith(registry, DispatchMenu)

SpecDispatch == InitDispatch /\ [][Next]_vars

\* the registry entries whose prefix starts the text
Hits(text) == {i \in 1..Len(commands) : StartsWith(text, commands[i].cmd)}

\* C8 (first match wins): the handler called for a PRIVMSG is that of the
\* first registry entry, in registration order, whose prefix starts the
\* text, and no other handler is called; with ".dice" registered before
\* ".dice2" the text ".dice2 roll" calls the handler of ".dice".
C8_FirstMatchWins ==
    (nHandled > 0 /\ IsPrivmsg(lastLine))
        => LET text == TextOf(lastLine)
               first == CHOOSE i \in Hits(text) : \A j \in Hits(text) : i <= j
           IN  /\ Len(lastInvoked) <= 1
               /\ Hits(text) = {} => lastInvoked = <<>>
               /\ Hits(text) # {} =>
                      /\ Len(lastInvoked) = 1
                      /\ lastInvoked[1].func = commands[first].func
                      /\ lastInvoked[1].message = text
               /\ ( /\ text = ".dice2 roll"
                    /\ commands[1].cmd = ".dice"
                    /\ commands[2].cmd = ".dice2" )
                      => lastInvoked[1].func = "cmd_dice"

\* ".dice2 roll" has been dispatched with ".dice" registered before ".dice2"
C8_Witness ==
    /\ nHandled > 0
    /\ IsPrivmsg(lastLine)
    /\ TextOf(lastLine) = ".dice2 roll"
    /\ commands[1].cmd = ".dice"
    /\ commands[2].cmd = ".dice2"
    /\ Len(lastInvoked) = 1
    /\ lastInvoked[1].func = "cmd_dice"

(***************************************************************************)
(* The framing on streams cut at arbitrary places: the same program, with  *)
(* a server whose writes arrive in pieces.                                 *)
(***************************************************************************)
FramingMenu ==
    { "x\r", "\nx", "x", CRLF,
      Utf8Lead, Utf8Cont \o CRLF, Utf8Lead \o Utf8Cont \o CRLF,
      ":a!u@h PRIVMSG #c :.pi", "ng" \o CRLF }

InitFraming == InitWith(Registry, FramingMenu)

SpecFraming == InitFraming /\ [][Next]_vars

\* the bytes of the segments in w, in order
RECURSIVE Concat(_)
Concat(w) == IF w = <<>> THEN "" ELSE Head(w) \o Concat(Tail(w))

\* the lines of a stream received as one chunk, and the rest after them
LinesOf(text) ==
    LET lines == Split(text, CRLF, -1) IN SubSeq(lines, 1, Len(lines) - 1)

RestOf(text) == LET lines == Split(text, CRLF, -1) IN lines[Len(lines)]

\* C9 (framing is boundary-independent): however the stream the server
\* wrote is cut into received chunks, the lines framed from it are those of
\* the stream received as one chunk, and the unterminated rest stays in the
\* buffer.  Stated of the runs that end with the stream received or with a
\* chunk refused, for a stream that as one chunk decodes.
C9_FramingBoundaryIndependent ==
    LET stream == rx \o Concat(wire)
    IN  (DecodeOk(stream) /\ (wire = <<>> \/ exit = "decode_error"))
            => /\ framed = LinesOf(Decode(stream))
               /\ pc = "recv" => buffer = RestOf(Decode(stream))

\* C10 (welcome handling): a 001 reply makes the bot send exactly one JOIN
\* for the configured channel, and no JOIN is sent before a 001 reply has
\* been received.
C10_JoinOnlyAfterWelcome ==
    /\ (nHandled > 0 /\ IsWelcome(lastLine))
           => Cardinality({i \in 1..Len(lastOut) :
                               lastOut[i] = "JOIN " \o channel}) = 1
    /\ Having(sent, "JOIN") # {} => welcomed


(***************************************************************************)
(* Nickname collisions: the server rejects the nickname, once from a       *)
(* server whose name holds the digits 001.                                 *)
(***************************************************************************)
NickMenu ==
    { ":s 433 * n :used" \o CRLF,
      ":s001 433 * n :used" \o CRLF,
      ":s 001 n :hi" \o CRLF,
      ":a!u@h PRIVMSG #c :.ping" \o CRLF }

InitNick == InitWith(Registry, NickMenu)

SpecNick == InitNick /\ [][Next]_vars

\* the numeric reply 433
IsNickInUse(line) == HasOrigin(line) /\ CommandOf(line) = "433"

\* [0-9]* matches the whole of s
RECURSIVE AllDigits(_)
AllDigits(s) ==
    s = "" \/ (Contains("0123456789", SubSeq(s, 1, 1)) /\ AllDigits(Tail(s)))

\* C11 (nickname collision recovery): a 433 reply received before the
\* welcome makes the nickname the rejected one followed by at least one
\* digit, sends exactly one NICK with the new nickname, and sends no JOIN
\* while that line is processed.
C11_NickCollisionRecovery ==
    (nHandled > 0 /\ IsNickInUse(lastLine) /\ ~welcomed)
        => /\ StartsWith(nickname, lastNick)
           /\ Len(nickname) > Len(lastNick)
           /\ AllDigits(SubSeq(nickname, Len(lastNick) + 1, Len(nickname)))
           /\ \E i \in 1..Len(lastOut) :
                 /\ lastOut[i] = "NICK " \o nickname
                 /\ Having(lastOut, "NICK") = {i}
           /\ Having(lastOut, "JOIN") = {}

\* the recovery as the claim describes it, for a 433 reply without 001 in it
C11_PlainCollisionRecovers ==
    (nHandled > 0 /\ lastLine = ":s 433 * n :used")
        => /\ nickname # lastNick
           /\ lastOut = <<"NICK " \o nickname>>

(***************************************************************************)
(* Chat: commands in the channel and in a direct message, one of them with *)
(* PING in its text, one from an origin without '!'.                       *)
(***************************************************************************)
ChatMenu ==
    { ":a!u@h PRIVMSG #c :.ping" \o CRLF,
      ":a!u@h PRIVMSG #c :.ping PING" \o CRLF,
      ":srv PRIVMSG #c :.help" \o CRLF,
      ":z!u@h PRIVMSG #c :.weather x" \o CRLF,
      ":z!u@h PRIVMSG #c :hello .ping" \o CRLF,
      ":a!u@h PRIVMSG n :.ping" \o CRLF }

InitChat == InitWith(Registry, ChatMenu)

SpecChat == InitChat /\ [][Next]_vars

\* the positions in out of the lines that are a PRIVMSG
Replies(out) == {k \in 1..Len(out) : StartsWith(out[k], "PRIVMSG ")}

\* C12 (end-to-end command reply): a PRIVMSG to the configured channel whose
\* text starts with a registered command calls that command's handler once,
\* with the part of the origin before '!' as sender, and, when the handler
\* returns, exactly one PRIVMSG is sent while the line is processed, of the
\* form 'PRIVMSG <channel> :<reply>'; for '.ping' from a it is
\* 'PRIVMSG #c :Pong! Hello a!'.
C12_ChannelCommandReply ==
    (/\ nHandled > 0
     /\ IsChannelMsg(lastLine)
     /\ Hits(TextOf(lastLine)) # {}
     /\ exit # "handler_error")
        => LET text == TextOf(lastLine)
               i == CHOOSE h \in Hits(text) : \A g \in Hits(text) : h <= g
           IN  /\ Len(lastInvoked) = 1
               /\ lastInvoked[1].func = commands[i].func
               /\ lastInvoked[1].sender = SenderOf(lastLine)
               /\ lastInvoked[1].message = text
               /\ Cardinality(Replies(lastOut)) = 1
               /\ \A k \in Replies(lastOut) :
                     /\ StartsWith(lastOut[k], "PRIVMSG " \o channel \o " :")
                     /\ commands[i].cmd = ".ping"
                          => lastOut[k] = "PRIVMSG " \o channel
                                 \o " :Pong! Hello " \o SenderOf(lastLine) \o "!"
               /\ lastLine = ":a!u@h PRIVMSG #c :.ping"
                     => lastOut = <<"PRIVMSG #c :Pong! Hello a!">>
               /\ lastLine = ":srv PRIVMSG #c :.help"
                     => lastInvoked[1].sender = "srv"

C12_Witness ==
    /\ nHandled > 0
    /\ lastLine = ":a!u@h PRIVMSG #c :.ping PING"
    /\ lastInvoked # <<>>
    /\ lastInvoked[1].func = "cmd_ping"
    /\ lastOut[1] = "PRIVMSG #c :Pong! Hello a!"

(***************************************************************************)
(* Lines that are not a PRIVMSG but carry the text of a command.           *)
(***************************************************************************)
ControlMenu ==
    { ":s NOTICE n :.ping" \o CRLF,
      ":s 372 n :.help" \o CRLF,
      ":a!u@h JOIN #c :.ping" \o CRLF,
      ":s PING :.stats" \o CRLF,
      "PING :.ping" \o CRLF,
      ".ping x y" \o CRLF,
      ":a!u@h PRIVMSG #c :.ping" \o CRLF }

InitControl == InitWith(Registry, ControlMenu)

SpecControl == InitControl /\ [][Next]_vars

\* C13 (only PRIVMSG lines reach the dispatcher): processing a line that is
\* not an origin-prefixed PRIVMSG calls no handler, leaves
\* commands_processed as it was, all-time and in every monthly bucket, and
\* sends no PRIVMSG, whatever its text.
C13_OnlyPrivmsgDispatched ==
    (nHandled > 0 /\ ~IsPrivmsg(lastLine))
        => /\ lastInvoked = <<>>
           /\ stats.commands_processed = lastStats.commands_processed
           /\ \A m \in DOMAIN stats.monthly_stats :
                 stats.monthly_stats[m].commands_processed
                     = IF m \in DOMAIN lastStats.monthly_stats
                       THEN lastStats.monthly_stats[m].commands_processed
                       ELSE 0
           /\ Replies(lastOut) = {}

C13_Witness ==
    /\ nHandled > 1
    /\ lastLine = ":s NOTICE n :.ping"
    /\ lastStats.commands_processed = 1
    /\ stats.commands_processed = 1

(***************************************************************************)
(* Malformed lines: an origin and fewer than two further parts.            *)
(***************************************************************************)
MalformedMenu ==
    { ":s" \o CRLF,
      ":s PING" \o CRLF,
      ":s .ping" \o CRLF,
      ":433" \o CRLF,
      ":001" \o CRLF,
      ":a!u@h PRIVMSG #c :.ping" \o CRLF }

InitMalformed == InitWith(Registry, MalformedMenu)

SpecMalformed == InitMalformed /\ [][Next]_vars

\* line.startswith(':') with len(parts) < 3
Malformed(line) == StartsWith(line, ":") /\ Len(Split(line, " ", 2)) < 3

\* no counter differs from what it was when the line was taken up; a bucket
\* made for a new month is empty
CountersUnchanged ==
    /\ stats.messages_received = lastStats.messages_received
    /\ stats.commands_processed = lastStats.commands_processed
    /\ stats.user_messages = lastStats.user_messages
    /\ \A m \in DOMAIN stats.monthly_stats :
           stats.monthly_stats[m] = BucketOf(lastStats, m)

Said(nick) == ":" \o nick \o " PRIVMSG #c :x" \o CRLF

TopMenu ==
    { Said("a") \o Said("a") \o Said("z")
          \o ":a PRIVMSG #c :.topusers" \o CRLF,
      Said("z") \o Said("a") \o Said("b") \o Said("y"),
      Said("y") \o Said("b") \o Said("b"),
      ":b PRIVMSG #c :.topusers" \o CRLF,
      ":a PRIVMSG n :.topusers" \o CRLF }

InitTop == InitWith(Registry, TopMenu)

SpecTop == InitTop /\ [][Next]_vars

\* the position of the entry e in the dict d
PosIn(d, e) == CHOOSE i \in 1..Len(d) : d[i] = e

\* top holds at most n entries of d, in non-increasing order of count and,
\* for equal counts, in the order of d; no entry of d left out ranks before
\* an entry of top
IsTopOf(top, d, n) ==
    /\ Len(top) <= n
    /\ Len(top) = (IF Len(d) < n THEN Len(d) ELSE n)
    /\ \A k \in 1..Len(top) : \E i \in 1..Len(d) : d[i] = top[k]
    /\ \A k, l \in 1..Len(top) :
          k < l => \/ top[k][2] > top[l][2]
                   \/ /\ top[k][2] = top[l][2]
                      /\ PosIn(d, top[k]) < PosIn(d, top[l])
    /\ \A i \in 1..Len(d) :
          (\A k \in 1..Len(top) : top[k] # d[i])
              => \A k \in 1..Len(top) :
                    \/ top[k][2] > d[i][2]
                    \/ top[k][2] = d[i][2] /\ PosIn(d, top[k]) < i

\* C15 (top senders): the reply to .topusers lists at most three
\* (sender, count) pairs of the current month's tallies, in non-increasing
\* order of count, senders of equal count in the order they were first seen
\* that month; after three channel messages from a and one from z it lists
\* a with 3, then z with 1.
C15_TopSenders ==
    (/\ nHandled > 0
     /\ lastInvoked # <<>>
     /\ lastInvoked[1].func = "cmd_topusers")
        => LET d == BucketOf(lastInvoked[1].seen, current_month).user_messages
               top == top_users(d)
               target == IF IsChannelMsg(lastLine) THEN channel
                         ELSE SenderOf(lastLine)
           IN  /\ IsTopOf(top, d, TopN)
               /\ d # <<>>
                    => lastOut = << "PRIVMSG " \o target \o " :Top 3 users for "
                                    \o MonthStr(current_month) \o ": "
                                    \o JoinTop(top) >>
               /\ d = << <<"a", 3>>, <<"z", 1>> >>
                    => /\ top = << <<"a", 3>>, <<"z", 1>> >>
                       /\ Contains(lastOut[1], ": a (3 messages), z (1 messages)")
               /\ d = << <<"z", 1>>, <<"a", 1>>, <<"b", 2>>, <<"y", 1>> >>
                    => top = << <<"b", 2>>, <<"z", 1>>, <<"a", 1>> >>

C15_Witness ==
    /\ nHandled = 4
    /\ lastLine = ":a PRIVMSG #c :.topusers"
    /\ BucketOf(stats, current_month).user_messages
           = << <<"a", 3>>, <<"z", 1>> >>
    /\ lastOut = <<"PRIVMSG #c :Top 3 users for M1: a (3 messages), z (1 messages)">>

\* more senders than the reply lists, two of them level
C15_WitnessTie ==
    /\ lastLine = ":b PRIVMSG #c :.topusers"
    /\ lastOut = <<"PRIVMSG #c :Top 3 users for M1: b (2 messages), z (1 messages), a (1 messages)">>

\* the calendar month of the last line is the month of a bucket that was
\* there when the line was taken up: the month has not changed
MonthUnchanged == lastNow \in DOMAIN lastStats.monthly_stats

\* C16 (month rollover): the first channel message after the month changed
\* is counted in a new bucket, where its sender's count is 1; whatever line
\* is processed, every bucket of another month stays under its key with the
\* counters and tallies it had; and when the month has not changed no
\* bucket is created or reset: the current bucket only gains what the line
\* adds, and a line that counts nothing leaves the statistics as they were.
C16_MonthRollover ==
    nHandled > 0
        => /\ \A m \in DOMAIN lastStats.monthly_stats :
                 /\ m \in DOMAIN stats.monthly_stats
                 /\ m # lastNow
                      => stats.monthly_stats[m] = lastStats.monthly_stats[m]
           /\ DOMAIN stats.monthly_stats
                  = DOMAIN lastStats.monthly_stats \cup {lastNow}
           /\ (~MonthUnchanged /\ IsChannelMsg(lastLine))
                 => /\ stats.monthly_stats[lastNow].user_messages
                           = << <<SenderOf(lastLine), 1>> >>
                    /\ stats.monthly_stats[lastNow].messages_received = 1
           /\ MonthUnchanged
                 => LET old == lastStats.monthly_stats[lastNow]
                        new == stats.monthly_stats[lastNow]
                    IN  /\ new.messages_received >= old.messages_received
                        /\ new.commands_processed >= old.commands_processed
                        /\ \A u \in DictKeys(old.user_messages) :
                              /\ u \in DictKeys(new.user_messages)
                              /\ DictGet(new.user_messages, u)
                                     >= DictGet(old.user_messages, u)
                        /\ ~HasOrigin(lastLine) => stats = lastStats

C16_Witness ==
    /\ nHandled = 2
    /\ lastLine = ":a!u@h PRIVMSG #c :.ping"
    /\ lastNow = 2
    /\ current_month = 2
    /\ stats.monthly_stats[2].user_messages = << <<"a", 1>> >>
    /\ stats.monthly_stats[1].user_messages = << <<"z", 1>> >>
    /\ stats.monthly_stats[1] = lastStats.monthly_stats[1]

\* C20 (month check precedes accounting): after any line is processed the
\* current month is the calendar month at which it was processed, every
\* bucket of another month is as it was, and each increment of an all-time
\* counter or tally made for the line is matched by the same increment in
\* the bucket of that calendar month.
C20_MonthCheckPrecedesAccounting ==
    nHandled > 0
        => LET old == BucketOf(lastStats, lastNow)
               new == BucketOf(stats, lastNow)
           IN  /\ current_month = lastNow
               /\ lastNow \in DOMAIN stats.monthly_stats
               /\ \A m \in DOMAIN stats.monthly_stats :
                     m # lastNow => stats.monthly_stats[m] = BucketOf(lastStats, m)
               /\ new.messages_received - old.messages_received
                      = stats.messages_received - lastStats.messages_received
               /\ new.commands_processed - old.commands_processed
                      = stats.commands_processed - lastStats.commands_processed
               /\ \A u \in DictKeys(stats.user_messages) :
                     Tally(new.user_messages, u) - Tally(old.user_messages, u)
                         = Tally(stats.user_messages, u)
                               - Tally(lastStats.user_messages, u)

C20_Witness ==
    /\ nHandled = 2
    /\ lastLine = ":z!u@h PRIVMSG #c :.stats"
    /\ lastNow = 2
    /\ DOMAIN lastStats.monthly_stats = {1}
    /\ lastStats.monthly_stats[1].messages_received = 1
    /\ stats.monthly_stats[1].messages_received = 1
    /\ stats.monthly_stats[2].messages_received = 1
    /\ stats.monthly_stats[2].commands_processed = 1
    /\ stats.messages_received = 2

(***************************************************************************)
(* Shutdown: AUTO_RECONNECT set either way, and a socket whose send may    *)
(* raise.                                                                  *)
(***************************************************************************)
ShutdownMenu ==
    { ":s 001 n :hi" \o CRLF,
      ":a!u@h PRIVMSG #c :.ping" \o CRLF,
      "PING :t" \o CRLF \o "PING :u" \o CRLF,
      "PING" }

InitShutdown ==
    \E reconnect \in BOOLEAN, sendMayRaise \in BOOLEAN :
        InitIn(Registry, ShutdownMenu,
               [DefaultConfig EXCEPT !.AUTO_RECONNECT = reconnect],
               sendMayRaise)

SpecShutdown == InitShutdown /\ [][Next]_vars

\* run() has left its loop for an interrupt, or for the loss of the
\* transport with auto-reconnect disabled
ShutDown ==
    \/ exit = "interrupt"
    \/ exit \in {"eof", "recv_error"} /\ ~config.AUTO_RECONNECT

\* QUIT was handed to the socket once, as the last message, and the socket
\* is closed whether or not that send raised
ShutdownOrderly ==
    ShutDown
        => /\ pc = "done"
           /\ ~running
           /\ sock = "closed"
           /\ Cardinality({i \in 1..Len(sent) : sent[i] = QuitMessage}) = 1
           /\ sent[Len(sent)] = QuitMessage
           /\ pending = <<>>

\* a step from a state after the shutdown sends nothing, reads nothing and
\* stays there
ShutdownFinal ==
    (ShutDown /\ pc = "done")
        => /\ pc' = "done"
           /\ sent' = sent
           /\ rx' = rx
           /\ wire' = wire
           /\ sock' = sock
           /\ exit' = exit

DiceMenu ==
    { ":a!u@h PRIVMSG #c :.dice" \o CRLF,
      ":a!u@h PRIVMSG #c :.dice 3d6" \o CRLF,
      ":a!u@h PRIVMSG #c :.dice 2d20" \o CRLF,
      ":a!u@h PRIVMSG #c :.dice 11d6" \o CRLF,
      ":a!u@h PRIVMSG #c :.dice 2d101" \o CRLF,
      ":a!u@h PRIVMSG n :.dice x" \o CRLF }

DiceConfigs ==
    { DefaultConfig,
      [DefaultConfig EXCEPT !.MAX_DICE_COUNT = 2],
      [DefaultConfig EXCEPT !.MAX_DICE_SIDES = 6] }

InitDice ==
    \E settings \in DiceConfigs : InitIn(Registry, DiceMenu, settings, FALSE)

SpecDice == InitDice /\ [][Next]_vars

\* the reply sent for the last line, "" when none was sent
LastReply ==
    IF Replies(lastOut) = {} THEN ""
    ELSE TrailingOf(lastOut[CHOOSE k \in Replies(lastOut) : TRUE])

\* what C18 asks of a call of cmd_dice under the maxima maxCount, maxSides
DiceBounded(maxCount, maxSides) ==
    (/\ nHandled > 0
     /\ lastInvoked # <<>>
     /\ lastInvoked[1].func = "cmd_dice")
        => LET message == lastInvoked[1].message
               drawn == lastInvoked[1].drawn
               groups == dice_match(message, 1)
           IN  /\ message = ".dice"
                    => /\ Len(drawn) = 1
                       /\ drawn[1] \in 1..6
                       /\ LastReply = lastInvoked[1].sender \o " rolled: "
                                          \o IntToStr(drawn[1])
               /\ (/\ message # ".dice"
                   /\ groups # <<>>
                   /\ \/ StrToInt(groups[1]) > maxCount
                      \/ StrToInt(groups[2]) > maxSides)
                    => /\ drawn = <<>>
                       /\ StartsWith(LastReply, "Dice too large!")

\* C18 (dice bounds): a request NdS with N above the configured maximum
\* dice count or S above the configured maximum sides is answered with the
\* size-limit refusal and draws nothing; the bare '.dice' draws once and
\* reports one value in 1..6.
C18_DiceBounds ==
    DiceBounded(config.MAX_DICE_COUNT, config.MAX_DICE_SIDES)

\* the same with the maxima written into cmd_dice, 10 dice and 100 sides
C18_DiceBoundsHardCoded == DiceBounded(10, 100)

(***************************************************************************)
(* PRIVMSG lines: a body with spaces and further markers, no trailing      *)
(* parameter, and a second parameter in front of the trailing one.         *)
(***************************************************************************)
ParseMenu ==
    { ":a!u@h PRIVMSG #c :.ping x :y" \o CRLF,
      ":a!u@h PRIVMSG #c :a :b" \o CRLF,
      ":a!u@h PRIVMSG #c" \o CRLF,
      ":a!u@h PRIVMSG n" \o CRLF,
      ":a!u@h PRIVMSG n :.ping" \o CRLF,
      ":a!u@h PRIVMSG #c hello" \o CRLF,
      ":a!u@h PRIVMSG #c x :.ping" \o CRLF }

InitParse == InitWith(Registry, ParseMenu)

SpecParse == InitParse /\ [][Next]_vars

\* the parameters of the line in front of its trailing parameter
MiddleOf(line) ==
    IF Contains(ParamsOf(line), " :") THEN Split(ParamsOf(line), " :", 1)[1]
    ELSE ParamsOf(line)

\* the first of them
FirstParamOf(line) == Split(MiddleOf(line), " ", 1)[1]

\* the last line was handled as a PRIVMSG with this target and this body:
\* it was counted, its sender was tallied exactly when the target is the
\* channel, a handler was called exactly when a command starts the body,
\* with the body as its message, and the reply went to the channel or to
\* the sender accordingly
HandledAs(target, body) ==
    LET sender == SenderOf(lastLine)
    IN  /\ stats.messages_received = lastStats.messages_received + 1
        /\ Tally(stats.user_messages, sender)
               = Tally(lastStats.user_messages, sender)
                 + (IF target = channel THEN 1 ELSE 0)
        /\ lastInvoked # <<>> <=> Hits(body) # {}
        /\ lastInvoked # <<>>
             => /\ lastInvoked[1].message = body
                /\ \A k \in Replies(lastOut) :
                      StartsWith(lastOut[k],
                                 "PRIVMSG "
                                 \o (IF target = channel THEN channel ELSE sender)
                                 \o " :")

\* C19 (channel-message parsing): a PRIVMSG line is handled with its first
\* non-trailing parameter as target and its trailing parameter, verbatim, as
\* body; without a trailing parameter it is handled with an empty body.
C19_PrivmsgParsing ==
    (nHandled > 0 /\ IsPrivmsg(lastLine))
        => HandledAs(FirstParamOf(lastLine), TextOf(lastLine))

\* the same for the lines with one parameter in front of the trailing one
C19_OneTargetParsing ==
    (nHandled > 0 /\ IsPrivmsg(lastLine)
        /\ ~Contains(MiddleOf(lastLine), " "))
        => HandledAs(FirstParamOf(lastLine), TextOf(lastLine))

CrossMenu ==
    { ":s 001 n :PING" \o CRLF,
      ":s 433 * n :PING" \o CRLF,
      ":s NOTICE n :PING" \o CRLF,
      "PING :t" \o CRLF,
      ":a!u@h PRIVMSG #c :room 001" \o CRLF,
      ":a!u@h PRIVMSG #c :.ping 433" \o CRLF,
      ":a!u@h PRIVMSG n :call 433" \o CRLF,
      ":a!u@h PRIVMSG #c :.ping" \o CRLF }

InitCross == InitWith(Registry, CrossMenu)

SpecCross == InitCross /\ [][Next]_vars

\* the positions in out of the lines whose first word is verb
Commanding(out, verb) == {k \in 1..Len(out) : StartsWith(out[k], verb \o " ")}

\* C22 (keepalive is cross-cutting): a line that contains PING is answered
\* with a PONG while it is processed, also when it is a 001 reply, which is
\* answered with JOIN as well, or a 433 reply, which is answered with NICK
\* as well.
C22_KeepaliveCrossCutting ==
    (nHandled > 0 /\ Contains(lastLine, "PING") /\ exit # "handler_error")
        => /\ Having(lastOut, "PONG") # {}
           /\ IsWelcome(lastLine) => Commanding(lastOut, "JOIN") # {}
           /\ IsNickInUse(lastLine) => Commanding(lastOut, "NICK") # {}

\* C25 (control-plane isolation): processing a PRIVMSG line sends no JOIN
\* and no NICK and leaves the nickname as it was, whatever its body.
C25_PrivmsgLeavesControlPlane ==
    (nHandled > 0 /\ IsPrivmsg(lastLine))
        => /\ Commanding(lastOut, "JOIN") = {}
           /\ Commanding(lastOut, "NICK") = {}
           /\ nickname = lastNick

(***************************************************************************)
(* Command accounting, on the registries with overlapping prefixes.        *)
(***************************************************************************)
\* C23 (command accounting): processing a PRIVMSG raises commands_processed
\* by exactly 1, all-time and in the bucket of the current month, when the
\* prefix of some registry entry starts its text, however many entries
\* match; when none matches, both stay as they were, no handler is called
\* and no reply is sent.  The buckets of other months keep their count.
C23_CommandAccounting ==
    (nHandled > 0 /\ IsPrivmsg(lastLine))
        => LET hit == IF Hits(TextOf(lastLine)) # {} THEN 1 ELSE 0
           IN  /\ stats.commands_processed
                      = lastStats.commands_processed + hit
               /\ current_month \in DOMAIN stats.monthly_stats
               /\ stats.monthly_stats[current_month].commands_processed
                      = BucketOf(lastStats, current_month).commands_processed
                        + hit
               /\ \A m \in DOMAIN stats.monthly_stats \ {current_month} :
                      stats.monthly_stats[m].commands_processed
                          = BucketOf(lastStats, m).commands_processed
               /\ hit = 0 => (lastInvoked = <<>> /\ Replies(lastOut) = {})

\* a text that two registry entries match has been counted once, in the
\* second month, after a command counted in the first
C23_Witness ==
    /\ nHandled = 2
    /\ IsPrivmsg(lastLine)
    /\ Cardinality(Hits(TextOf(lastLine))) = 2
    /\ current_month = 2
    /\ lastStats.commands_processed = 1
    /\ stats.commands_processed = 2
    /\ stats.monthly_stats[1].commands_processed = 1
    /\ stats.monthly_stats[2].commands_processed = 1

\* a text that no entry matches has been processed
C23_WitnessNoMatch ==
    /\ nHandled = 2
    /\ lastLine = ":a!u@h PRIVMSG #c :dice"
    /\ lastStats.commands_processed = 1
    /\ stats.commands_processed = 1
    /\ lastOut = <<>>

(***************************************************************************)
(* The registration handshake.                                             *)
(***************************************************************************)
\* the two registration lines of connect()
Registration ==
    <<"NICK " \o BOT_NICKNAME, "USER " \o username \o " 0 * :" \o realname>>

\* nothing is sent without an open transport; on one, the first two
\* messages are NICK and USER, and every JOIN and PRIVMSG comes behind them
RegistrationFirst ==
    /\ sock \in {"none", "unconnected"} => sent = <<>>
    /\ sock \in {"open", "closed"} => SubSeq(sent, 1, 2) = Registration
    /\ Commanding(sent, "JOIN") \cup Commanding(sent, "PRIVMSG")
           \subseteq 3..Len(sent)
    /\ (rx = "" /\ exit = "none") => sent \in {<<>>, Registration}

\* the step that opens the transport sends the two lines in that step, with
\* nothing received and nothing handled, and goes on to recv
RegistrationStep ==
    (sock = "none" /\ sock' = "open")
        => /\ sent = <<>>
           /\ sent' = Registration
           /\ rx' = ""
           /\ nHandled' = 0
           /\ pc' = "recv"

\* C24 (registration handshake ordering): the step that opens the transport
\* sends NICK with the configured nickname and then USER with the username
\* and the realname, before anything is received and without waiting for a
\* reply; no JOIN and no PRIVMSG is sent in front of these two lines.
C24_RegistrationFirst == [](RegistrationFirst) /\ [][RegistrationStep]_vars

\* the two lines are out while what the server wrote is still unread; and
\* a later NICK, after a 433 reply, follows them
C24_Witness ==
    /\ Len(sent) = 3
    /\ SubSeq(sent, 1, 2) = Registration
    /\ nickname # BOT_NICKNAME
    /\ sent[3] = "NICK " \o nickname
    /\ wire # <<>>

(***************************************************************************)
(* The all-time counters against the monthly buckets.                      *)
(***************************************************************************)
\* the sum of f over the set S
RECURSIVE SumFn(_, _)
SumFn(f, S) ==
    IF S = {} THEN 0
    ELSE LET m == CHOOSE x \in S : TRUE IN f[m] + SumFn(f, S \ {m})

\* everyone with a tally in st, all-time or in a bucket
Tallied(st) ==
    DictKeys(st.user_messages)
        \cup UNION {DictKeys(st.monthly_stats[m].user_messages) :
                       m \in DOMAIN st.monthly_stats}

\* in the statistics st each all-time figure is the sum of the buckets'
TotalsAgreeIn(st) ==
    /\ st.messages_received
           = SumFn([m \in DOMAIN st.monthly_stats |->
                        st.monthly_stats[m].messages_received],
                   DOMAIN st.monthly_stats)
    /\ st.commands_processed
           = SumFn([m \in DOMAIN st.monthly_stats |->
                        st.monthly_stats[m].commands_processed],
                   DOMAIN st.monthly_stats)
    /\ \A u \in Tallied(st) :
           Tally(st.user_messages, u)
               = SumFn([m \in DOMAIN st.monthly_stats |->
                            Tally(st.monthly_stats[m].user_messages, u)],
                       DOMAIN st.monthly_stats)

\* C26 (totals agree with buckets): in every state, and in the statistics a
\* handler sees when it is called, all-time messages_received and
\* commands_processed are the sums of the buckets' and each sender's
\* all-time tally is the sum of that sender's tallies in the buckets.
C26_TotalsAgreeWithBuckets ==
    /\ TotalsAgreeIn(stats)
    /\ \A i \in 1..Len(lastInvoked) : TotalsAgreeIn(lastInvoked[i].seen)

\* z has written to the channel in both months, with a command each time
C26_Witness ==
    /\ nHandled = 2
    /\ stats.messages_received = 2
    /\ stats.commands_processed = 2
    /\ stats.user_messages = << <<"z", 2>> >>
    /\ DOMAIN stats.monthly_stats = {1, 2}
    /\ stats.monthly_stats[1].user_messages = << <<"z", 1>> >>
    /\ stats.monthly_stats[2].user_messages = << <<"z", 1>> >>
    /\ stats.monthly_stats[2].commands_processed = 1

(***************************************************************************)
(* The socket when run() has returned.                                     *)
(***************************************************************************)
\* C27 (no leaked transport): when run() has returned, on whichever path,
\* a socket the bot created has been closed.
C27_NoLeakedTransport ==
    pc = "done" => sock \in {"none", "closed"}

\* the same for the returns from the loop, which pass through cleanup()
C27_LoopExitsClose ==
    (pc = "done" /\ exit # "connect_failed") => sock = "closed"

(***************************************************************************)
(* Where the replies go.                                                   *)
(***************************************************************************)
\* C28 (reply routing): processing a PRIVMSG sends at most one reply, a
\* line 'PRIVMSG <target> :<text>' built by send_message, and only when a
\* handler was called; the reply to a message whose target is the
\* configured channel goes to the channel, the reply to any other PRIVMSG
\* goes to the sender's nickname and not to the channel.
C28_ReplyRouting ==
    (nHandled > 0 /\ IsPrivmsg(lastLine))
        => /\ Cardinality(Replies(lastOut)) <= 1
           /\ Replies(lastOut) # {} => Len(lastInvoked) = 1
           /\ \A k \in Replies(lastOut) :
                 IF IsChannelMsg(lastLine)
                 THEN StartsWith(lastOut[k], "PRIVMSG " \o channel \o " :")
                 ELSE /\ StartsWith(lastOut[k],
                                    "PRIVMSG " \o SenderOf(lastLine) \o " :")
                      /\ ~StartsWith(lastOut[k], "PRIVMSG " \o channel \o " ")

\* a direct command has been answered to its sender, after a command in
\* the channel
C28_Witness ==
    /\ nHandled = 2
    /\ lastLine = ":a!u@h PRIVMSG n :.ping"
    /\ lastOut = <<"PRIVMSG a :Pong! Hello a!">>
    /\ Commanding(sent, "PRIVMSG " \o channel) # {}

====
